---------------------------- MODULE Spec2Model ----------------------------
(***************************************************************************)
(* Model of scripts/plot_benchmarks.py: the line-oriented parser of a      *)
(* benchmark report (parse_benchmark_results), the three chart renderers   *)
(* and the CSV export of main().                                           *)
(*                                                                         *)
(* Strings are sequences of tokens.  A token is an indivisible piece of    *)
(* text ("===", " ", "Benchmark", "Method:", a digit, ...); none of the    *)
(* literals the program searches for can begin or end inside a token, so   *)
(* a substring test on the text is a contiguous-subsequence test on the    *)
(* tokens.  Python's None is the empty tuple and a value v that is not     *)
(* None is the one-element tuple <<v>>.                                    *)
(***************************************************************************)
EXTENDS Integers, Sequences, FiniteSets, TLC

VARIABLES
    argv,            \* sys.argv
    pc,              \* position of main()
    output_dir,      \* main: output_dir
    lines,           \* the lines of the report read so far (history)
    results,         \* parse_benchmark_results: results
    configs,         \* parse_benchmark_results: configs
    current_method,  \* parse_benchmark_results: current_method
    current_config,  \* parse_benchmark_results: current_config
    prev,            \* the four parser variables before the last line read (history)
    error,           \* the exception that ended the run, "" if none
    files,           \* the files written: path -> content
    stdout,          \* what was printed
    exit_status      \* process exit status, -1 while running

vars == <<argv, pc, output_dir, lines, results, configs, current_method,
          current_config, prev, error, files, stdout, exit_status>>

-----------------------------------------------------------------------------
(* Bounds *)

\* the number of report lines read in one run
MaxLines == 3

-----------------------------------------------------------------------------
(* Python values *)

None == <<>>
Some(v) == <<v>>

\* truth value of an optional string: None and "" are false
Truthy(o) == o # None /\ o[1] # <<>>

NL == "\n"
Whitespace == {" ", NL}
Digits == <<"0", "1", "2", "3", "4", "5", "6", "7", "8", "9">>
DigitSet == {Digits[i] : i \in 1..10}
DigitVal(t) == (CHOOSE i \in 1..10 : Digits[i] = t) - 1

-----------------------------------------------------------------------------
(* str operations *)

\* s[i:i+len(pat)] == pat
MatchAt(s, pat, i) ==
    /\ i >= 1
    /\ i + Len(pat) - 1 <= Len(s)
    /\ \A k \in 1..Len(pat) : s[i + k - 1] = pat[k]

\* s.find(pat), 1-based; 0 when absent
Find(s, pat) ==
    LET hits == {i \in 1..Len(s) : MatchAt(s, pat, i)}
    IN  IF hits = {} THEN 0 ELSE CHOOSE i \in hits : \A j \in hits : i <= j

\* pat in s
Contains(s, pat) == Find(s, pat) # 0

\* s.split(sep)[0]
Split0(s, sep) ==
    LET i == Find(s, sep)
    IN  IF i = 0 THEN s ELSE SubSeq(s, 1, i - 1)

\* s.split(sep)[1], for s that contains sep
Split1(s, sep) ==
    LET i == Find(s, sep)
    IN  Split0(SubSeq(s, i + Len(sep), Len(s)), sep)

RECURSIVE LStrip(_)
LStrip(s) ==
    IF s # <<>> /\ s[1] \in Whitespace THEN LStrip(Tail(s)) ELSE s

RECURSIVE RStrip(_)
RStrip(s) ==
    IF s # <<>> /\ s[Len(s)] \in Whitespace
    THEN RStrip(SubSeq(s, 1, Len(s) - 1)) ELSE s

\* s.strip()
Strip(s) == RStrip(LStrip(s))

\* s.split(sep) for a one-token separator: the list of pieces
RECURSIVE SplitAll(_, _)
SplitAll(s, sep) ==
    LET i == Find(s, <<sep>>)
    IN  IF i = 0 THEN <<s>>
        ELSE <<SubSeq(s, 1, i - 1)>> \o SplitAll(SubSeq(s, i + 1, Len(s)), sep)

\* sep.join(parts)
RECURSIVE Join(_, _)
Join(parts, sep) ==
    IF parts = <<>> THEN <<>>
    ELSE IF Len(parts) = 1 THEN parts[1]
    ELSE parts[1] \o <<sep>> \o Join(Tail(parts), sep)

-----------------------------------------------------------------------------
(* Numbers.  A sample is a decimal <<n, d>>, the value n/d with d the       *)
(* least power of ten that writes it; a mean is a fraction <<n, d>> in     *)
(* lowest terms.                                                           *)

RECURSIVE GCD(_, _)
GCD(a, b) == IF b = 0 THEN a ELSE GCD(b, a % b)

Rat(n, d) == LET g == GCD(n, d) IN IF g = 0 THEN <<0, 1>> ELSE <<n \div g, d \div g>>

RatAdd(a, b) == Rat(a[1] * b[2] + b[1] * a[2], a[2] * b[2])

\* the decimal n/d, d a power of ten, without trailing zeros
RECURSIVE Dec(_, _)
Dec(n, d) == IF d > 1 /\ n % 10 = 0 THEN Dec(n \div 10, d \div 10) ELSE <<n, d>>

RECURSIVE Pow10(_)
Pow10(k) == IF k = 0 THEN 1 ELSE 10 * Pow10(k - 1)

\* the integer written by a run of digits (0 for the empty run)
RECURSIVE ToInt(_)
ToInt(ds) ==
    IF ds = <<>> THEN 0
    ELSE 10 * ToInt(SubSeq(ds, 1, Len(ds) - 1)) + DigitVal(ds[Len(ds)])

\* float(text) for text made of digits and dots: None stands for ValueError
ParseFloat(text) ==
    LET dots   == {i \in 1..Len(text) : text[i] = "."}
        ndigit == Len(text) - Cardinality(dots)
    IN  IF Cardinality(dots) > 1 \/ ndigit = 0 THEN None
        ELSE IF dots = {} THEN Some(Dec(ToInt(text), 1))
        ELSE LET p    == CHOOSE i \in dots : TRUE
                 ip   == SubSeq(text, 1, p - 1)
                 fp   == SubSeq(text, p + 1, Len(text))
             IN  Some(Dec(ToInt(ip \o fp), Pow10(Len(fp))))

\* str(n) for an integer n >= 0
RECURSIVE IntStr(_)
IntStr(n) ==
    IF n < 10 THEN <<Digits[n + 1]>> ELSE IntStr(n \div 10) \o <<Digits[(n % 10) + 1]>>

\* the k decimal digits of the fraction r/d, d = 10^k
RECURSIVE FracStr(_, _)
FracStr(r, d) ==
    IF d = 1 THEN <<>>
    ELSE <<Digits[((r * 10) \div d) + 1]>> \o FracStr((r * 10) % d, d \div 10)

\* str(x) of a float x = n/d with d a power of ten: "150.5", "5.0"
FloatStr(x) ==
    IntStr(x[1] \div x[2]) \o <<".">> \o
    (IF x[2] = 1 THEN <<"0">> ELSE FracStr(x[1] % x[2], x[2]))

\* re.search(trigger + r'\s*([\d.]+)', line): group(1) of the leftmost match,
\* None when there is no match
RECURSIVE SkipSpace(_, _)
SkipSpace(s, i) ==
    IF i <= Len(s) /\ s[i] \in Whitespace THEN SkipSpace(s, i + 1) ELSE i

RECURSIVE NumberEnd(_, _)
NumberEnd(s, i) ==
    IF i <= Len(s) /\ s[i] \in DigitSet \cup {"."} THEN NumberEnd(s, i + 1) ELSE i

RegexSearch(line, trigger) ==
    LET start(i) == SkipSpace(line, i + Len(trigger))
        hits == {i \in 1..Len(line) :
                    /\ MatchAt(line, trigger, i)
                    /\ NumberEnd(line, start(i)) > start(i)}
    IN  IF hits = {} THEN None
        ELSE LET i == CHOOSE h \in hits : \A j \in hits : h <= j
             IN  Some(SubSeq(line, start(i), NumberEnd(line, start(i)) - 1))

-----------------------------------------------------------------------------
(* The literals of the program *)

GET == <<"GET">>
POST == <<"POST">>
WebSocket == <<"WebSocket">>
\* the keys of results and configs, in insertion order
MethodOrder == <<GET, POST, WebSocket>>
Methods == {MethodOrder[i] : i \in 1..3}

SecOpen == <<"===", " ">>                          \* '=== '
SecClose == <<" ", "Benchmark", " ", "===">>       \* ' Benchmark ==='
BenchWord == <<" ", "Benchmark">>                  \* ' Benchmark'
MethodMark == <<"Method:", " ">>                   \* 'Method: '
ReqTrig == <<"Requests/second:">>                  \* 'Requests/second:'
WsTrig == <<"WebSocket", " ", "messages/second:">> \* 'WebSocket messages/second:'
MsgTrig == <<"messages/second:">>                  \* 'messages/second:'
Basic == <<"Basic">>
HighConcurrency == <<"High", " ", "Concurrency">>


-----------------------------------------------------------------------------
(* The report lines the model reads (each is followed by a newline) *)

L_SecBasic == <<"===", " ", "Basic", " ", "Benchmark", " ", "===">>
L_SecHigh == <<"===", " ", "High", " ", "Concurrency", " ", "Benchmark", " ", "===">>
L_MethodGet == <<"Method:", " ", "GET">>
L_MethodPost == <<"Method:", " ", "POST">>
L_MethodWs == <<"Method:", " ", "WebSocket">>
L_MethodPut == <<"Method:", " ", "PUT">>
L_MethodEmpty == <<"Method:", " ">>
L_Req == <<"Requests/second:", " ", "1", "5", "0", ".", "5">>
L_ReqNA == <<"Requests/second:", " ", "N/A">>
L_Ws == <<"WebSocket", " ", "messages/second:", " ", "5">>
L_Msg == <<"Total", " ", "messages/second:", " ", "5">>
L_WsBad == <<"WebSocket", " ", "messages/second:", " ", "1", ".", "2", ".", "3">>
\* a section marker that also holds the three other patterns
L_All == <<"===", " ", "Requests/second:", " ", "7", " ", "WebSocket", " ",
           "messages/second:", " ", "7", " ", "Method:", " ", "GET", " ",
           "Benchmark", " ", "===">>
\* a method marker that also holds the two sample patterns
L_MethodReqWs == <<"Requests/second:", " ", "7", " ", "WebSocket", " ",
                   "messages/second:", " ", "7", " ", "Method:", " ", "POST">>
\* a throughput line that also holds the WebSocket pattern
L_ReqWs == <<"Requests/second:", " ", "7", " ", "WebSocket", " ",
             "messages/second:", " ", "9">>
L_Other == <<"Server", " ", "started">>

Lines == {L_SecBasic, L_SecHigh, L_MethodGet, L_MethodPost, L_MethodWs,
          L_MethodPut, L_MethodEmpty, L_Req, L_ReqNA, L_Ws, L_Msg, L_WsBad,
          L_All, L_MethodReqWs, L_ReqWs, L_Other}

-----------------------------------------------------------------------------
(* parse_benchmark_results: the body of the loop over the lines.  st is    *)
(* the record of the parser's variables, with the exception raised.        *)

EmptyLists == [m \in Methods |-> <<>>]

InitParse ==
    [results |-> EmptyLists, configs |-> EmptyLists,
     current_method |-> None, current_config |-> None, error |-> ""]

Raise(st, exc) == [st EXCEPT !.error = exc]

\* Record, but a sample with no label yet gets no entry in configs
Record_SkipMissingLabel(st, method, value) ==
    IF method \notin DOMAIN st.results THEN Raise(st, "KeyError")
    ELSE IF st.current_config = None
         THEN [st EXCEPT !.results[method] = Append(@, value)]
         ELSE [st EXCEPT !.results[method] = Append(@, value),
                         !.configs[method] = Append(@, st.current_config)]

\* results[method].append(value); configs[method].append(current_config)
Record(st, method, value) ==
    IF method \notin DOMAIN st.results THEN Raise(st, "KeyError")
    ELSE [st EXCEPT !.results[method] = Append(@, value),
                    !.configs[method] = Append(@, st.current_config)]

IsSectionLine(line) == Contains(line, SecOpen) /\ Contains(line, SecClose)
IsMethodLine(line) == Contains(line, MethodMark)
IsThroughputLine(line) == Contains(line, ReqTrig)
IsWebSocketLine(line) == Contains(line, WsTrig)

SectionBranch(st, line) ==
    [st EXCEPT !.current_config = Some(Split0(Split1(line, SecOpen), BenchWord))]

\* MethodBranch, but the first method marker wins
MethodBranch_FirstWins(st, line) ==
    IF st.current_method # None THEN st
    ELSE [st EXCEPT !.current_method = Some(Strip(Split1(line, MethodMark)))]

MethodBranch(st, line) ==
    [st EXCEPT !.current_method = Some(Strip(Split1(line, MethodMark)))]

\* ThroughputBranch, but a sample with no method yet is filed under GET
ThroughputBranch_DefaultGet(st, line) ==
    LET m == RegexSearch(line, ReqTrig)
    IN  IF m = None THEN Raise(st, "AttributeError")
        ELSE IF ParseFloat(m[1]) = None THEN Raise(st, "ValueError")
        ELSE IF Truthy(st.current_method)
             THEN Record(st, st.current_method[1], ParseFloat(m[1])[1])
             ELSE Record(st, GET, ParseFloat(m[1])[1])

\* ThroughputBranch, but the number is extracted only once a method is set
ThroughputBranch_LazyExtract(st, line) ==
    IF ~Truthy(st.current_method) THEN st
    ELSE LET m == RegexSearch(line, ReqTrig)
         IN  IF m = None THEN Raise(st, "AttributeError")
             ELSE IF ParseFloat(m[1]) = None THEN Raise(st, "ValueError")
             ELSE Record(st, st.current_method[1], ParseFloat(m[1])[1])

ThroughputBranch(st, line) ==
    LET m == RegexSearch(line, ReqTrig)
    IN  IF m = None THEN Raise(st, "AttributeError")
        ELSE IF ParseFloat(m[1]) = None THEN Raise(st, "ValueError")
        ELSE IF Truthy(st.current_method)
             THEN Record(st, st.current_method[1], ParseFloat(m[1])[1])
             ELSE st

\* WebSocketBranch, but guarded by the current method like ThroughputBranch
WebSocketBranch_NeedsMethod(st, line) ==
    LET m == RegexSearch(line, MsgTrig)
    IN  IF m = None THEN Raise(st, "AttributeError")
        ELSE IF ParseFloat(m[1]) = None THEN Raise(st, "ValueError")
        ELSE IF Truthy(st.current_method)
             THEN Record(st, WebSocket, ParseFloat(m[1])[1])
             ELSE st

WebSocketBranch(st, line) ==
    LET m == RegexSearch(line, MsgTrig)
    IN  IF m = None THEN Raise(st, "AttributeError")
        ELSE IF ParseFloat(m[1]) = None THEN Raise(st, "ValueError")
        ELSE Record(st, WebSocket, ParseFloat(m[1])[1])

\* ProcessLine, but with independent ifs in place of the elif chain
ProcessLine_NoElse(st, line) ==
    LET s1 == IF IsSectionLine(line) THEN SectionBranch(st, line) ELSE st
        s2 == IF IsMethodLine(line) THEN MethodBranch(s1, line) ELSE s1
        s3 == IF IsThroughputLine(line) /\ s2.error = ""
              THEN ThroughputBranch(s2, line) ELSE s2
        s4 == IF IsWebSocketLine(line) /\ s3.error = ""
              THEN WebSocketBranch(s3, line) ELSE s3
    IN  s4

ProcessLine(st, line) ==
    IF IsSectionLine(line) THEN SectionBranch(st, line)
    ELSE IF IsMethodLine(line) THEN MethodBranch(st, line)
    ELSE IF IsThroughputLine(line) THEN ThroughputBranch(st, line)
    ELSE IF IsWebSocketLine(line) THEN WebSocketBranch(st, line)
    ELSE st

-----------------------------------------------------------------------------
(* The renderers and the CSV export *)

\* str(cfg) as an f-string formats it: None gives 'None'
FmtConfig(cfg) == IF cfg = None THEN <<"None">> ELSE cfg[1]

Min(a, b) == IF a < b THEN a ELSE b

\* zip(rs, cs): the indices of the pairs
ZipLen(rs, cs) == Min(Len(rs), Len(cs))

\* 'word' in cfg raises TypeError when cfg is None
FilterFails(rs, cs) == \E i \in 1..ZipLen(rs, cs) : cs[i] = None

\* [rps for rps, cfg in zip(rs, cs) if word in cfg]
RECURSIVE Matching(_, _, _)
Matching(rs, cs, word) ==
    IF rs = <<>> \/ cs = <<>> THEN <<>>
    ELSE (IF Contains(cs[1][1], word) THEN <<rs[1]>> ELSE <<>>)
         \o Matching(Tail(rs), Tail(cs), word)

RECURSIVE Sum(_)
Sum(xs) == IF xs = <<>> THEN <<0, 1>> ELSE RatAdd(xs[1], Sum(Tail(xs)))

\* np.mean(xs) if xs else 0
Mean(xs) == IF xs = <<>> THEN <<0, 1>> ELSE Rat(Sum(xs)[1], Sum(xs)[2] * Len(xs))

\* the path f'{output_dir}/{name}'
OutPath(dir, name) == dir \o <<"/", name>>

\* the directory a path names: <<"root" or "cwd", the directory segments>>
Resolve(path) ==
    LET segs == SplitAll(path, "/")
        named == SelectSeq(SubSeq(segs, 1, Len(segs) - 1), LAMBDA x : x # <<>>)
    IN  <<IF path # <<>> /\ path[1] = "/" THEN "root" ELSE "cwd", named>>

Write(fs, path, content) ==
    [q \in DOMAIN fs \cup {path} |-> IF q = path THEN content ELSE fs[q]]

\* plot_http_comparison: the heights of the two series, for GET and POST
HttpChart(res, cfg) ==
    [basic |-> [m \in {GET, POST} |-> Mean(Matching(res[m], cfg[m], Basic))],
     high  |-> [m \in {GET, POST} |-> Mean(Matching(res[m], cfg[m], HighConcurrency))]]

\* plot_timeline: one bar per sample, method by method
RECURSIVE Bars(_, _, _)
Bars(method, rs, cs) ==
    IF rs = <<>> \/ cs = <<>> THEN <<>>
    ELSE <<[height |-> rs[1],
            label  |-> method \o <<NL>> \o FmtConfig(cs[1]),
            color  |-> IF method = GET THEN "blue"
                       ELSE IF method = POST THEN "green" ELSE "red"]>>
         \o Bars(method, Tail(rs), Tail(cs))

Timeline(res, cfg) ==
    Bars(GET, res[GET], cfg[GET]) \o Bars(POST, res[POST], cfg[POST])
        \o Bars(WebSocket, res[WebSocket], cfg[WebSocket])

\* the rows f'{method},{cfg},{rps}\n' of one method
RECURSIVE Rows(_, _, _)
Rows(method, rs, cs) ==
    IF rs = <<>> \/ cs = <<>> THEN <<>>
    ELSE method \o <<",">> \o FmtConfig(cs[1]) \o <<",">> \o FloatStr(rs[1]) \o <<NL>>
         \o Rows(method, Tail(rs), Tail(cs))

CsvHeader == <<"Method", ",", "Configuration", ",", "RequestsPerSecond", NL>>

CsvText(res, cfg) ==
    CsvHeader \o Rows(MethodOrder[1], res[MethodOrder[1]], cfg[MethodOrder[1]])
              \o Rows(MethodOrder[2], res[MethodOrder[2]], cfg[MethodOrder[2]])
              \o Rows(MethodOrder[3], res[MethodOrder[3]], cfg[MethodOrder[3]])

-----------------------------------------------------------------------------
(* main *)

P_Bare == <<"report.txt">>
P_Rel == <<"out", "/", "report.txt">>
Prog == <<"plot_benchmarks.py">>

Argvs == {<<Prog>>, <<Prog, P_Bare>>, <<Prog, P_Rel>>, <<Prog, P_Bare, P_Rel>>}

UsageText == "Usage: python plot_benchmarks.py <benchmark_report_file>"

\* '/'.join(report_file.split('/')[:-1])
OutputDir(report_file) ==
    LET segs == SplitAll(report_file, "/")
    IN  Join(SubSeq(segs, 1, Len(segs) - 1), "/")

ParserState ==
    [results |-> results, configs |-> configs, current_method |-> current_method,
     current_config |-> current_config, error |-> error]

Init ==
    /\ argv \in Argvs
    /\ pc = "start"
    /\ output_dir = <<>>
    /\ lines = <<>>
    /\ results = InitParse.results
    /\ configs = InitParse.configs
    /\ current_method = InitParse.current_method
    /\ current_config = InitParse.current_config
    /\ prev = None
    /\ error = ""
    /\ files = <<>>
    /\ stdout = <<>>
    /\ exit_status = -1

\* an uncaught exception ends the process
Abort(exc) ==
    /\ error' = exc
    /\ pc' = "aborted"
    /\ exit_status' = 1

Usage ==
    /\ pc = "start"
    /\ Len(argv) # 2
    /\ stdout' = Append(stdout, UsageText)
    /\ pc' = "exit"
    /\ exit_status' = 1
    /\ UNCHANGED <<argv, output_dir, lines, results, configs, current_method,
                   current_config, prev, error, files>>

Start ==
    /\ pc = "start"
    /\ Len(argv) = 2
    /\ output_dir' = OutputDir(argv[2])
    /\ pc' = "open"
    /\ UNCHANGED <<argv, lines, results, configs, current_method, current_config,
                   prev, error, files, stdout, exit_status>>

OpenReport ==
    /\ pc = "open"
    /\ pc' = "scan"
    /\ UNCHANGED <<argv, output_dir, lines, results, configs, current_method,
                   current_config, prev, error, files, stdout, exit_status>>

OpenFails ==
    /\ pc = "open"
    /\ Abort("FileNotFoundError")
    /\ UNCHANGED <<argv, output_dir, lines, results, configs, current_method,
                   current_config, prev, files, stdout>>

ScanLine ==
    /\ pc = "scan"
    /\ Len(lines) < MaxLines
    /\ \E text \in Lines :
         LET line == text \o <<NL>>
             st   == ProcessLine(ParserState, line)
         IN  /\ lines' = Append(lines, line)
             /\ prev' = Some(ParserState)
             /\ results' = st.results
             /\ configs' = st.configs
             /\ current_method' = st.current_method
             /\ current_config' = st.current_config
             /\ error' = st.error
             /\ pc' = IF st.error # "" THEN "aborted" ELSE "scan"
             /\ exit_status' = IF st.error # "" THEN 1 ELSE exit_status
    /\ UNCHANGED <<argv, output_dir, files, stdout>>

EndOfReport ==
    /\ pc = "scan"
    /\ pc' = "plot_http"
    /\ UNCHANGED <<argv, output_dir, lines, results, configs, current_method,
                   current_config, prev, error, files, stdout, exit_status>>

PlotHttp ==
    /\ pc = "plot_http"
    /\ IF \E m \in {GET, POST} : FilterFails(results[m], configs[m])
       THEN Abort("TypeError") /\ UNCHANGED files
       ELSE /\ files' = Write(files, OutPath(output_dir, "http_comparison.png"),
                              HttpChart(results, configs))
            /\ pc' = "plot_ws"
            /\ UNCHANGED <<error, exit_status>>
    /\ UNCHANGED <<argv, output_dir, lines, results, configs, current_method,
                   current_config, prev, stdout>>

PlotWebSocket ==
    /\ pc = "plot_ws"
    /\ files' = IF results[WebSocket] = <<>> THEN files
                ELSE Write(files, OutPath(output_dir, "websocket_performance.png"),
                           Mean(results[WebSocket]))
    /\ pc' = "plot_timeline"
    /\ UNCHANGED <<argv, output_dir, lines, results, configs, current_method,
                   current_config, prev, error, stdout, exit_status>>

PlotTimeline ==
    /\ pc = "plot_timeline"
    /\ files' = Write(files, OutPath(output_dir, "performance_timeline.png"),
                      Timeline(results, configs))
    /\ pc' = "csv"
    /\ UNCHANGED <<argv, output_dir, lines, results, configs, current_method,
                   current_config, prev, error, stdout, exit_status>>

WriteCsv ==
    /\ pc = "csv"
    /\ files' = Write(files, OutPath(output_dir, "benchmark_data.csv"),
                      CsvText(results, configs))
    /\ pc' = "exit"
    /\ exit_status' = 0
    /\ UNCHANGED <<argv, output_dir, lines, results, configs, current_method,
                   current_config, prev, error, stdout>>

Next ==
    \/ Usage
    \/ Start
    \/ OpenReport
    \/ OpenFails
    \/ ScanLine
    \/ EndOfReport
    \/ PlotHttp
    \/ PlotWebSocket
    \/ PlotTimeline
    \/ WriteCsv

Spec == Init /\ [][Next]_vars

-----------------------------------------------------------------------------
(* Properties.  The last line read is LastLine and Before is the parser's  *)
(* state before it; both stay as they are once the scan is over.           *)

LastLine == lines[Len(lines)]
Before == prev[1]
History == SubSeq(lines, 1, Len(lines) - 1)

\* a line has been read and nothing has run since
JustScanned ==
    /\ prev # None
    /\ pc = "scan" \/ (pc = "aborted" /\ error # "TypeError")

\* the pattern that wins on a line, by precedence
SectionMarker(line) == IsSectionLine(line)
MethodMarker(line) == ~IsSectionLine(line) /\ IsMethodLine(line)
ThroughputLine(line) ==
    ~IsSectionLine(line) /\ ~IsMethodLine(line) /\ IsThroughputLine(line)
WebSocketLine(line) ==
    /\ ~IsSectionLine(line) /\ ~IsMethodLine(line) /\ ~IsThroughputLine(line)
    /\ IsWebSocketLine(line)

\* the number a line carries after a trigger: None when there is none or
\* when it is not a number
NumberAfter(line, trigger) ==
    IF RegexSearch(line, trigger) = None THEN None
    ELSE ParseFloat(RegexSearch(line, trigger)[1])

\* the method named by the most recent method marker of h, None if none
RECURSIVE LatestMethod(_)
LatestMethod(h) ==
    IF h = <<>> THEN None
    ELSE IF MethodMarker(h[Len(h)])
         THEN Some(Strip(Split1(h[Len(h)], MethodMark)))
         ELSE LatestMethod(SubSeq(h, 1, Len(h) - 1))

\* the label of the most recent section marker of h, None if none
RECURSIVE LatestLabel(_)
LatestLabel(h) ==
    IF h = <<>> THEN None
    ELSE IF SectionMarker(h[Len(h)])
         THEN Some(Split0(Split1(h[Len(h)], SecOpen), BenchWord))
         ELSE LatestLabel(SubSeq(h, 1, Len(h) - 1))

SameLatches ==
    /\ current_method = Before.current_method
    /\ current_config = Before.current_config

SameLists(m) ==
    /\ results[m] = Before.results[m]
    /\ configs[m] = Before.configs[m]

\* the last line appended value v with label l to method m
Appended(m, v, l) ==
    /\ results[m] = Append(Before.results[m], v)
    /\ configs[m] = Append(Before.configs[m], l)

TotalSamples(res) == Len(res[GET]) + Len(res[POST]) + Len(res[WebSocket])

\* C1: at every point of the scan the sample list and the label list of
\* every method have the same length, and a line that adds a sample adds it
\* and its label at the same index, the label being the one current when
\* the sample was recorded; earlier entries are never moved.
C1_Aligned ==
    /\ \A m \in Methods : Len(results[m]) = Len(configs[m])
    /\ prev # None =>
         \A m \in Methods :
            \/ SameLists(m)
            \/ \E v \in {results[m][i] : i \in 1..Len(results[m])} :
                  Appended(m, v, Before.current_config)

C1_Witness ==
    /\ Len(results[WebSocket]) = 2
    /\ Len(configs[WebSocket]) = 2
    /\ configs[WebSocket][1] = None
    /\ configs[WebSocket][2] = Some(Basic)

C3_DroppedBeforeMethod ==
    (/\ JustScanned
     /\ ThroughputLine(LastLine)
     /\ NumberAfter(LastLine, ReqTrig) # None
     /\ \A i \in 1..Len(History) : ~MethodMarker(History[i]))
    => /\ \A m \in Methods : SameLists(m)
       /\ SameLatches
       /\ error = ""
       /\ pc = "scan"

\* a section marker has been read, then a well-formed throughput line
C3_Witness ==
    /\ JustScanned
    /\ Len(lines) = 2
    /\ SectionMarker(lines[1])
    /\ LastLine = L_Req \o <<NL>>
    /\ current_method = None
    /\ TotalSamples(results) = 0

\* what C4 says of a line: one value appended to the WebSocket lists with
\* the current label, and nothing else changed
WebSocketRecorded ==
    /\ NumberAfter(LastLine, MsgTrig) # None
    /\ Appended(WebSocket, NumberAfter(LastLine, MsgTrig)[1], Before.current_config)
    /\ SameLists(GET)
    /\ SameLists(POST)
    /\ SameLatches
    /\ error = ""

\* C4 as stated: every line that holds 'messages/second:' followed by a
\* number and none of the three earlier patterns adds one WebSocket sample.
C4_AnyMessagesLine ==
    (/\ JustScanned
     /\ ~IsSectionLine(LastLine) /\ ~IsMethodLine(LastLine)
     /\ ~IsThroughputLine(LastLine)
     /\ Contains(LastLine, MsgTrig)
     /\ NumberAfter(LastLine, MsgTrig) # None)
    => WebSocketRecorded

\* C4 amended: every line that holds 'WebSocket messages/second:', a number
\* after 'messages/second:' and none of the three earlier patterns adds one
\* value to the WebSocket samples and the current label to the WebSocket
\* labels, whatever the current method is, and changes nothing else.
C4_WebSocketLine ==
    (/\ JustScanned
     /\ WebSocketLine(LastLine)
     /\ NumberAfter(LastLine, MsgTrig) # None)
    => WebSocketRecorded

\* a WebSocket line read while no method is set, after a section marker
C4_Witness ==
    /\ JustScanned
    /\ WebSocketLine(LastLine)
    /\ Before.current_method = None
    /\ Before.current_config = Some(HighConcurrency)
    /\ results[WebSocket] = <<<<5, 1>>>>
    /\ configs[WebSocket] = <<Some(HighConcurrency)>>

\* a line that reaches the throughput or the WebSocket branch and carries
\* no number the branch can parse
Malformed(line) ==
    \/ ThroughputLine(line) /\ NumberAfter(line, ReqTrig) = None
    \/ WebSocketLine(line) /\ NumberAfter(line, MsgTrig) = None

OutputNames ==
    {"http_comparison.png", "websocket_performance.png",
     "performance_timeline.png", "benchmark_data.csv"}

NoOutput == \A p \in DOMAIN files : p[Len(p)] \notin OutputNames

\* C5: once a throughput or WebSocket line without a parseable number has
\* been read, wherever it is in the report and whether or not a method is
\* set, the run is aborted with an error and no output file exists.
C5_MalformedAborts ==
    (\E i \in 1..Len(lines) : Malformed(lines[i]))
    => /\ pc = "aborted"
       /\ error \in {"AttributeError", "ValueError"}
       /\ exit_status = 1
       /\ NoOutput
       /\ Malformed(LastLine)

\* the malformed line is the third line and no method is set when it is read
C5_Witness ==
    /\ Len(lines) = 3
    /\ LastLine = L_ReqNA \o <<NL>>
    /\ Before.current_method = None
    /\ Before.results[WebSocket] # <<>>
    /\ pc = "aborted"

\* the run is over
RunEnded == pc \in {"exit", "aborted"}

\* the report was read to its end without error
ParsedOk ==
    \/ pc \in {"plot_http", "plot_ws", "plot_timeline", "csv"}
    \/ pc = "exit" /\ Len(argv) = 2
    \/ pc = "aborted" /\ error = "TypeError"

Written(name) == OutPath(output_dir, name) \in DOMAIN files

\* C6: after a run whose report was parsed without error, the files
\* http_comparison.png, performance_timeline.png and benchmark_data.csv
\* exist, and websocket_performance.png exists exactly when there is a
\* WebSocket sample; this includes reports whose GET or POST samples have no
\* label.
C6_OutputsWritten ==
    (RunEnded /\ ParsedOk)
    => /\ Written("http_comparison.png")
       /\ Written("performance_timeline.png")
       /\ Written("benchmark_data.csv")
       /\ Written("websocket_performance.png") <=> results[WebSocket] # <<>>

\* the Aggregate as one list of <<method, label, value>>, method by method
RECURSIVE Triples(_, _, _)
Triples(method, rs, cs) ==
    IF rs = <<>> \/ cs = <<>> THEN <<>>
    ELSE <<<<method, cs[1], rs[1]>>>> \o Triples(method, Tail(rs), Tail(cs))

Aggregate ==
    Triples(GET, results[GET], configs[GET])
        \o Triples(POST, results[POST], configs[POST])
        \o Triples(WebSocket, results[WebSocket], configs[WebSocket])

\* the lines of a text, without their newlines
TextLines(text) ==
    LET pieces == SplitAll(text, NL)
    IN  IF pieces[Len(pieces)] = <<>> THEN SubSeq(pieces, 1, Len(pieces) - 1)
        ELSE pieces

CsvRowOf(t) == t[1] \o <<",">> \o FmtConfig(t[2]) \o <<",">> \o FloatStr(t[3])

CsvMatchesAggregate ==
    LET rows == TextLines(files[OutPath(output_dir, "benchmark_data.csv")])
    IN  /\ Len(rows) = TotalSamples(results) + 1
        /\ rows[1] = <<"Method", ",", "Configuration", ",", "RequestsPerSecond">>
        /\ \A k \in 1..Len(Aggregate) : rows[k + 1] = CsvRowOf(Aggregate[k])

\* C7: after a run whose report was parsed without error and gave N
\* samples, benchmark_data.csv holds the header and exactly N rows, row k
\* being the method, label and value of the k-th sample of the Aggregate
\* (GET, then POST, then WebSocket, each in encounter order).
C7_CsvRows ==
    (RunEnded /\ ParsedOk)
    => /\ Written("benchmark_data.csv")
       /\ CsvMatchesAggregate

\* C8: every file written is in the directory of the input path: the
\* current directory when the input path is a bare file name.
C8_OutputDirectory ==
    \A p \in DOMAIN files : Resolve(p) = Resolve(argv[2])

\* a method marker naming no key of results
UnknownMethodMarker(line) ==
    MethodMarker(line) /\ Strip(Split1(line, MethodMark)) \notin Methods

\* C9: a run whose report holds a method marker naming a method other than
\* GET, POST and WebSocket ends aborted by an error, whatever follows the
\* marker, and writes no output file.
C9_UnknownMethodFatal ==
    (RunEnded /\ \E i \in 1..Len(lines) : UnknownMethodMarker(lines[i]))
    => /\ pc = "aborted"
       /\ error # ""
       /\ NoOutput

\* C10: a line does what the first pattern it matches says and nothing
\* else, in the order section marker, method marker, 'Requests/second:',
\* WebSocket line; a line matching no pattern changes nothing.
C10_FirstMatchOnly ==
    JustScanned =>
       IF SectionMarker(LastLine)
       THEN /\ \A m \in Methods : SameLists(m)
            /\ current_method = Before.current_method
            /\ current_config = LatestLabel(<<LastLine>>)
            /\ error = ""
       ELSE IF MethodMarker(LastLine)
       THEN /\ \A m \in Methods : SameLists(m)
            /\ current_config = Before.current_config
            /\ current_method = LatestMethod(<<LastLine>>)
            /\ error = ""
       ELSE IF ThroughputLine(LastLine)
       THEN /\ SameLatches
            /\ \/ \A m \in Methods : SameLists(m)
               \/ /\ NumberAfter(LastLine, ReqTrig) # None
                  /\ \E k \in Methods :
                        /\ Appended(k, NumberAfter(LastLine, ReqTrig)[1],
                                    Before.current_config)
                        /\ \A m \in Methods \ {k} : SameLists(m)
       ELSE IF WebSocketLine(LastLine)
       THEN /\ SameLatches
            /\ SameLists(GET)
            /\ SameLists(POST)
            /\ \/ SameLists(WebSocket) /\ error # ""
               \/ WebSocketRecorded
       ELSE /\ \A m \in Methods : SameLists(m)
            /\ SameLatches
            /\ error = ""

\* a line holding a method marker and both sample patterns has been read
\* with a method already set: it set the method and recorded nothing
C10_Witness ==
    /\ JustScanned
    /\ LastLine = L_MethodReqWs \o <<NL>>
    /\ Before.current_method = Some(GET)
    /\ current_method = Some(POST)
    /\ TotalSamples(results) = 0

=============================================================================
